---- MODULE Spec2Model ----
(***************************************************************************)
(* Model of chaldea-center/app-update (src/main.py): the version           *)
(* comparison is_new_ver, the three store resolvers of class Store and     *)
(* the runner main, which compares each store's resolved version with the  *)
(* persisted one, posts a webhook notification and rewrites the state      *)
(* file current_ver.json.                                                  *)
(*                                                                         *)
(* Text is a sequence of symbols.  A symbol is one character ("1", ".",    *)
(* " ", "a", "-"), or one of the label words the code looks for            *)
(* ("Version" and its two translations), taken as a unit.                  *)
(***************************************************************************)
EXTENDS Integers, Sequences, FiniteSets, TLC

VARIABLES
    \* ---- is_new_ver called on its own (specification SpecVer)
    vnew,        \* argument new_ver
    vcur,        \* argument current_ver
    vret,        \* returned value
    vpc,         \* "call" before the call, "return" after it
    \* ---- Store.parse_version called on its own (specification SpecStore)
    sstore,      \* the store the method is called on
    senv,        \* what the network answers to the store's requests
    sout,        \* outcome of the call: [raised, value, diag]
    spc,         \* "call" before the call, "return" after it
    \* ---- main (specification Spec)
    file,        \* current_ver.json: [state, data]
    pc,          \* position of the run
    idx,         \* position of the loop over ALL_STORES
    old_save_data,
    save_data,
    old_ver,
    new_ver,
    resolved_version,  \* Store.resolved_version of each store
    log,         \* stores whose resolver printed a fault diagnostic in this run
    sent,        \* webhook POSTs issued in this run
    exc,         \* the exception that ended the run, "none" otherwise
    runs,        \* number of runs started
    hist         \* history of the runs, for the properties over several runs

verVars == <<vnew, vcur, vret, vpc>>
storeVars == <<sstore, senv, sout, spc>>
runVars == <<file, pc, idx, old_save_data, save_data, old_ver, new_ver,
             resolved_version, log, sent, exc, runs, hist>>
vars == <<verVars, storeVars, runVars>>

-----------------------------------------------------------------------------
(* Bounds *)

\* Largest number of '.'-separated components of an argument of is_new_ver
\* in SpecVer.
MaxParts == 2

\* Number of runs of main in one behaviour of Spec.
MaxRuns == 3

-----------------------------------------------------------------------------
(* Text helpers *)

Digits == {"0", "1", "2", "9"}

DigitVal(c) ==
    CASE c = "0" -> 0 [] c = "1" -> 1 [] c = "2" -> 2 [] c = "9" -> 9

Whitespace == {" "}

Min(a, b) == IF a <= b THEN a ELSE b

\* str.strip(): leading and trailing whitespace removed
RECURSIVE LStrip(_)
LStrip(s) ==
    IF s # <<>> /\ Head(s) \in Whitespace THEN LStrip(Tail(s)) ELSE s

RECURSIVE RStrip(_)
RStrip(s) ==
    IF s # <<>> /\ s[Len(s)] \in Whitespace
    THEN RStrip(SubSeq(s, 1, Len(s) - 1))
    ELSE s

Strip(s) == RStrip(LStrip(s))

\* str.split(sep): the pieces between the separators; never an empty list
RECURSIVE SplitFrom(_, _, _)
SplitFrom(s, sep, piece) ==
    IF s = <<>> THEN <<piece>>
    ELSE IF Head(s) = sep THEN <<piece>> \o SplitFrom(Tail(s), sep, <<>>)
    ELSE SplitFrom(Tail(s), sep, Append(piece, Head(s)))

Split(s, sep) == SplitFrom(s, sep, <<>>)

\* str.join
RECURSIVE Join(_, _)
Join(pieces, sep) ==
    IF Len(pieces) = 0 THEN <<>>
    ELSE IF Len(pieces) = 1 THEN pieces[1]
    ELSE pieces[1] \o <<sep>> \o Join(Tail(pieces), sep)

\* int(text): surrounding whitespace is dropped, one sign is allowed, then
\* at least one digit and nothing else; anything else is a ValueError
IntBody(text) ==
    LET t == Strip(text)
    IN  IF t # <<>> /\ Head(t) \in {"+", "-"} THEN Tail(t) ELSE t

IntRaises(text) ==
    LET b == IntBody(text)
    IN  b = <<>> \/ \E i \in 1..Len(b) : b[i] \notin Digits

RECURSIVE DigitsValue(_)
DigitsValue(b) ==
    IF b = <<>> THEN 0
    ELSE 10 * DigitsValue(SubSeq(b, 1, Len(b) - 1)) + DigitVal(b[Len(b)])

IntOf(text) ==
    LET t == Strip(text)
        v == DigitsValue(IntBody(text))
    IN  IF t # <<>> /\ Head(t) = "-" THEN 0 - v ELSE v

-----------------------------------------------------------------------------
(* is_new_ver *)

\* [int(num) for num in text.split(".")]
IntList(text) ==
    LET parts == Split(text, ".")
    IN  [i \in 1..Len(parts) |-> IntOf(parts[i])]

IntListRaises(text) ==
    LET parts == Split(text, ".")
    IN  \E i \in 1..Len(parts) : IntRaises(parts[i])

\* the loop over zip(new_nums, current_nums), from position i on
RECURSIVE ZipLoop(_, _, _)
ZipLoop(new_nums, current_nums, i) ==
    IF i > Min(Len(new_nums), Len(current_nums)) THEN FALSE
    ELSE IF new_nums[i] # current_nums[i] THEN new_nums[i] > current_nums[i]
    ELSE ZipLoop(new_nums, current_nums, i + 1)

\* a plausible slip: the shorter list is padded with zeros (zip_longest)
RECURSIVE ZipLongestLoop(_, _, _)
ZipLongestLoop(new_nums, current_nums, i) ==
    LET n == IF i <= Len(new_nums) THEN new_nums[i] ELSE 0
        c == IF i <= Len(current_nums) THEN current_nums[i] ELSE 0
    IN  IF i > Len(new_nums) /\ i > Len(current_nums) THEN FALSE
        ELSE IF n # c THEN n > c
        ELSE ZipLongestLoop(new_nums, current_nums, i + 1)

is_new_ver_padded(new, current) ==
    IF IntListRaises(new) \/ IntListRaises(current) THEN FALSE
    ELSE ZipLongestLoop(IntList(new), IntList(current), 1)

\* a plausible slip: >= where the code has >, so equal versions count as newer
RECURSIVE ZipLoopOrEqual(_, _, _)
ZipLoopOrEqual(new_nums, current_nums, i) ==
    IF i > Min(Len(new_nums), Len(current_nums)) THEN TRUE
    ELSE IF new_nums[i] # current_nums[i] THEN new_nums[i] > current_nums[i]
    ELSE ZipLoopOrEqual(new_nums, current_nums, i + 1)

is_new_ver_or_equal(new, current) ==
    IF IntListRaises(new) \/ IntListRaises(current) THEN FALSE
    ELSE ZipLoopOrEqual(IntList(new), IntList(current), 1)

is_new_ver(new, current) ==
    IF IntListRaises(new) THEN FALSE             \* except ValueError
    ELSE IF IntListRaises(current) THEN FALSE    \* except ValueError
    ELSE ZipLoop(IntList(new), IntList(current), 1)

-----------------------------------------------------------------------------
(* The stores *)

DEFAULT_VERSION == <<"1", ".", "0", ".", "0">>

PLAY_STORE == "Google Play Store"
APP_STORE == "iOS App Store"
MAC_STORE == "Mac App Store"

StoreType == {PLAY_STORE, APP_STORE, MAC_STORE}

\* the stores in the order main visits them
ALL_STORES == <<PLAY_STORE, APP_STORE, MAC_STORE>>

msg_prefix(store) ==
    CASE store = PLAY_STORE -> "Android app"
      [] store = APP_STORE -> "iOS app"
      [] store = MAC_STORE -> "Mac app"

avatar_url(store) ==
    CASE store = PLAY_STORE -> "https://i.imgur.com/kN7NO37.png"
      [] store = APP_STORE -> "https://i.imgur.com/fTxPeCW.png"
      [] store = MAC_STORE -> "https://i.imgur.com/XP7rskN.png"

\* the label words re.sub removes from the text of the version node
Labels == {"Version", "Version_ja", "Version_zh"}

\* re.sub(r'...|Version|...', '', text)
RECURSIVE RemoveLabels(_)
RemoveLabels(text) ==
    IF text = <<>> THEN <<>>
    ELSE IF Head(text) \in Labels THEN RemoveLabels(Tail(text))
    ELSE <<Head(text)>> \o RemoveLabels(Tail(text))

\* What a GET of an HTML page gives:
\*   kind "error"      httpx.get raises a transport error
\*   kind "empty"      the body is empty
\*   kind "malformed"  lxml.html.fromstring raises
\*   kind "doc"        nodes is what the xpath selects; a node's text may be
\*                     None; text is the body as raw text
NoNode == [none |-> TRUE, text |-> <<>>]
Node(t) == [none |-> FALSE, text |-> t]
Page(k, n, t) == [kind |-> k, nodes |-> n, text |-> t]

Returned(v, d) == [raised |-> FALSE, value |-> v, diag |-> d]
Raised == [raised |-> TRUE, value |-> <<>>, diag |-> {}]

\* _xml_path: every failure inside the try is caught
xml_path(page) ==
    IF page.kind = "error" THEN Returned(DEFAULT_VERSION, {"store version not found"})
    ELSE IF page.kind = "empty" THEN Returned(DEFAULT_VERSION, {"Empty response"})
    ELSE IF page.kind = "malformed"
    THEN Returned(DEFAULT_VERSION, {"store version not found"})
    ELSE IF page.nodes = <<>>                                   \* IndexError
    THEN Returned(DEFAULT_VERSION, {"store version not found"})
    ELSE IF page.nodes[1].none                                  \* TypeError
    THEN Returned(DEFAULT_VERSION, {"store version not found"})
    ELSE Returned(Strip(RemoveLabels(page.nodes[1].text)), {})

get_play_store_version(env) == xml_path(env.page)

\* What the lookup API gives:
\*   kind "error"      httpx.get raises a transport error
\*   kind "malformed"  the body is no JSON, or has no "results"
\*   kind "json"       results is the list under "results"; an entry may
\*                     lack "version" or "trackViewUrl"
ApiResult(hv, v, hu) == [has_version |-> hv, version |-> v, has_url |-> hu]
Api(k, r) == [kind |-> k, results |-> r]

\* a plausible slip: the arguments of the comparison swapped
get_ios_version_swapped(env) ==
    IF env.api.kind # "json" THEN Raised
    ELSE IF env.api.results = <<>> THEN Raised
    ELSE IF ~env.api.results[1].has_version THEN Raised
    ELSE IF ~env.api.results[1].has_url THEN Raised
    ELSE LET api_version == env.api.results[1].version
             site == xml_path(env.page)
             app_store_version == site.value
         IN  IF is_new_ver(app_store_version, api_version)
             THEN Returned(api_version, site.diag)
             ELSE Returned(app_store_version, site.diag)

get_ios_version(env) ==
    IF env.api.kind = "error" THEN Raised                   \* httpx error
    ELSE IF env.api.kind = "malformed" THEN Raised          \* JSON error
    ELSE IF env.api.results = <<>> THEN Raised              \* IndexError
    ELSE IF ~env.api.results[1].has_version THEN Raised     \* KeyError
    ELSE IF ~env.api.results[1].has_url THEN Raised         \* KeyError
    ELSE LET api_version == env.api.results[1].version
             site == xml_path(env.page)
             app_store_version == site.value
         IN  IF is_new_ver(api_version, app_store_version)
             THEN Returned(api_version, site.diag)
             ELSE Returned(app_store_version,
                           site.diag \cup
                           IF api_version # app_store_version
                           THEN {"App store website version is newer than api version"}
                           ELSE {})

\* number of digits of text from position i on
RECURSIVE DigitRun(_, _)
DigitRun(text, i) ==
    IF i <= Len(text) /\ text[i] \in Digits THEN 1 + DigitRun(text, i + 1) ELSE 0

\* r'Version (\d+)\.(\d+)\.(\d+)' matched at position i: the three groups,
\* or <<>> when it does not match there
MatchAt(text, i) ==
    LET p1 == i + 2
        d1 == DigitRun(text, p1)
        p2 == p1 + d1 + 1
        d2 == DigitRun(text, p2)
        p3 == p2 + d2 + 1
        d3 == DigitRun(text, p3)
    IN  IF /\ i + 1 <= Len(text)
           /\ text[i] = "Version"
           /\ text[i + 1] = " "
           /\ d1 >= 1
           /\ p1 + d1 <= Len(text)
           /\ text[p1 + d1] = "."
           /\ d2 >= 1
           /\ p2 + d2 <= Len(text)
           /\ text[p2 + d2] = "."
           /\ d3 >= 1
        THEN << SubSeq(text, p1, p1 + d1 - 1),
                SubSeq(text, p2, p2 + d2 - 1),
                SubSeq(text, p3, p3 + d3 - 1) >>
        ELSE <<>>

\* re.findall(...)[0], or <<>> when findall finds nothing
RECURSIVE FirstMatch(_, _)
FirstMatch(text, i) ==
    IF i > Len(text) THEN <<>>
    ELSE IF MatchAt(text, i) # <<>> THEN MatchAt(text, i)
    ELSE FirstMatch(text, i + 1)

get_mac_version(env) ==
    IF env.page.kind = "error" THEN Raised                  \* httpx error
    ELSE IF env.page.text = <<>>
    THEN Returned(DEFAULT_VERSION, {"Empty response"})
    ELSE LET matches == FirstMatch(env.page.text, 1)
         IN  IF matches # <<>>
             THEN Returned(Join(matches, "."), {})
             ELSE Returned(DEFAULT_VERSION, {"Mac App Store version not found"})

parse_version(store, env) ==
    CASE store = PLAY_STORE -> get_play_store_version(env)
      [] store = APP_STORE -> get_ios_version(env)
      [] store = MAC_STORE -> get_mac_version(env)

-----------------------------------------------------------------------------
(* Inputs *)

V0_9 == <<"0", ".", "9">>
V1_1 == <<"1", ".", "1">>
V1_1_0 == <<"1", ".", "1", ".", "0">>
V1_2 == <<"1", ".", "2">>
V1_2_0 == <<"1", ".", "2", ".", "0">>
V2_0 == <<"2", ".", "0">>
V2_0_0 == <<"2", ".", "0", ".", "0">>
VText == <<"a">>

\* components of the arguments of is_new_ver in SpecVer
CompTokens ==
    { <<"0">>, <<"1">>, <<"9">>, <<"1", "0">>, <<"a">>, <<>>, <<"-", "1">> }

RECURSIVE TokenSeqs(_)
TokenSeqs(n) ==
    IF n = 0 THEN { <<>> }
    ELSE { Append(q, t) : q \in TokenSeqs(n - 1), t \in CompTokens }

VerStrings ==
    { Join(q, ".") : q \in UNION { TokenSeqs(n) : n \in 1..MaxParts } }

\* texts of the node the xpath selects
NodeTexts ==
    { <<"Version", " ">> \o V1_1, V1_1_0, <<" ">> \o V1_2 \o <<" ">>,
      <<"Version_ja">> \o V2_0, V0_9, <<"Version">>, VText, DEFAULT_VERSION }

HtmlPages ==
    { Page("error", <<>>, <<>>), Page("empty", <<>>, <<>>),
      Page("malformed", <<>>, <<"a">>), Page("doc", <<>>, <<"a">>),
      Page("doc", <<NoNode>>, <<"a">>) }
    \cup { Page("doc", <<Node(t)>>, <<"a">>) : t \in NodeTexts }
    \cup { Page("doc", <<Node(V1_1), Node(V1_2)>>, <<"a">>) }

\* raw texts of the Mac App Store page
MacTexts ==
    { <<"a", "Version", " ">> \o V1_1_0 \o <<"a">>,
      <<"Version", " ">> \o V1_1 \o <<" ", "Version", " ">> \o V1_2_0,
      <<"Version", " ">> \o V2_0_0 \o <<"Version", " ">> \o V1_1_0,
      <<"Version", " ", "1", "0", ".", "0", ".", "2", "a">>,
      <<"Version", " ">> \o V1_1,
      <<"Version">> \o V1_1_0,
      <<"a">> }

MacPages ==
    { Page("error", <<>>, <<>>), Page("empty", <<>>, <<>>) }
    \cup { Page("doc", <<>>, t) : t \in MacTexts }

ApiVersions == { V1_1, V1_1_0, V1_2, V0_9, VText, DEFAULT_VERSION }

Apis ==
    { Api("error", <<>>), Api("malformed", <<>>), Api("json", <<>>),
      Api("json", <<ApiResult(FALSE, <<>>, TRUE)>>),
      Api("json", <<ApiResult(TRUE, V1_1, FALSE)>>) }
    \cup { Api("json", <<ApiResult(TRUE, v, TRUE)>>) : v \in ApiVersions }

NoApi == Api("unused", <<>>)
Env(a, p) == [api |-> a, page |-> p]

\* everything the network can answer to the requests of a store
Envs(store) ==
    CASE store = PLAY_STORE -> { Env(NoApi, p) : p \in HtmlPages }
      [] store = APP_STORE -> { Env(a, p) : a \in Apis, p \in HtmlPages }
      [] store = MAC_STORE -> { Env(NoApi, p) : p \in MacPages }

-----------------------------------------------------------------------------
(* is_new_ver on its own *)

VerParked == vnew = <<>> /\ vcur = <<>> /\ vret = FALSE /\ vpc = "parked"

VerInit ==
    /\ vnew \in VerStrings
    /\ vcur \in VerStrings
    /\ vret = FALSE
    /\ vpc = "call"

VerCall ==
    /\ UNCHANGED <<storeVars, runVars>>
    /\ vpc = "call"
    /\ vret' = is_new_ver(vnew, vcur)
    /\ vpc' = "return"
    /\ UNCHANGED <<vnew, vcur>>

-----------------------------------------------------------------------------
(* Store.parse_version on its own *)

StoreParked ==
    /\ sstore = PLAY_STORE
    /\ senv = Env(NoApi, Page("error", <<>>, <<>>))
    /\ sout = Raised
    /\ spc = "parked"

StoreInit ==
    /\ sstore \in StoreType
    /\ senv \in Envs(sstore)
    /\ sout = Raised
    /\ spc = "call"

StoreCall ==
    /\ UNCHANGED <<verVars, runVars>>
    /\ spc = "call"
    /\ sout' = parse_version(sstore, senv)
    /\ spc' = "return"
    /\ UNCHANGED <<sstore, senv>>

-----------------------------------------------------------------------------
(* main *)

EmptyMap == [k \in {} |-> <<>>]

Put(d, k, v) == [x \in DOMAIN d \cup {k} |-> IF x = k THEN v ELSE d[x]]

Unset == [set |-> FALSE, v |-> <<>>]
Value(t) == [set |-> TRUE, v |-> t]

\* the state file: state "absent", "ok" (data is its JSON object) or
\* "corrupt" (a write that failed half way left no JSON document)
File(st, d) == [state |-> st, data |-> d]

LEGACY == "Legacy Store"

\* values of a store's entry in the file main starts from; <<>> is the
\* empty string
FileVals == { <<>>, V0_9, V1_1, VText }

InitFiles ==
    { File("absent", EmptyMap), File("ok", EmptyMap) }
    \cup { File("ok", [k \in StoreType |-> v]) : v \in FileVals }
    \cup { File("ok", [k \in {PLAY_STORE, LEGACY} |-> v]) : v \in {V1_1} }
    \cup { File("ok", [k \in {MAC_STORE} |-> v]) : v \in {V0_9} }

\* what the network answers to a store's requests during a run of main
RunEnvs(store) ==
    CASE store = PLAY_STORE ->
            { Env(NoApi, p) :
                p \in { Page("empty", <<>>, <<>>),
                        Page("doc", <<Node(<<"Version", " ">> \o V1_1)>>, <<"a">>),
                        Page("doc", <<Node(VText)>>, <<"a">>) } }
      [] store = APP_STORE ->
            { Env(Api("json", <<>>), Page("doc", <<>>, <<"a">>)),
              Env(Api("json", <<ApiResult(TRUE, V1_1, TRUE)>>),
                  Page("error", <<>>, <<>>)),
              Env(Api("json", <<ApiResult(TRUE, V1_1, TRUE)>>),
                  Page("doc", <<Node(V1_1_0)>>, <<"a">>)),
              Env(Api("json", <<ApiResult(TRUE, V1_2, TRUE)>>),
                  Page("doc", <<Node(V1_1)>>, <<"a">>)) }
      [] store = MAC_STORE ->
            { Env(NoApi, p) :
                p \in { Page("error", <<>>, <<>>),
                        Page("doc", <<>>, <<"a">>),
                        Page("doc", <<>>, <<"Version", " ">> \o V1_1_0) } }

store == ALL_STORES[idx]

\* old_save_data.get(store.type) or DEFAULT_VERSION
OldVer(data, st) ==
    IF st \in DOMAIN data /\ data[st] # <<>> THEN data[st] ELSE DEFAULT_VERSION

NoHist ==
    [ outcome |-> "none",                       \* how the previous run ended
      resolved |-> [s \in StoreType |-> Unset], \* what it resolved
      sent |-> {},                              \* the stores it notified
      completed |-> FALSE,                      \* some run has written the file
      held |-> [s \in StoreType |-> {}] ]       \* values written before the last write

RunParked ==
    /\ file = File("absent", EmptyMap)
    /\ pc = "parked"
    /\ idx = 1
    /\ old_save_data = EmptyMap
    /\ save_data = EmptyMap
    /\ old_ver = <<>>
    /\ new_ver = <<>>
    /\ resolved_version = [s \in StoreType |-> Unset]
    /\ log = {}
    /\ sent = <<>>
    /\ exc = "none"
    /\ runs = 0
    /\ hist = NoHist

RunInit ==
    /\ file \in InitFiles
    /\ pc = "start"
    /\ idx = 1
    /\ old_save_data = EmptyMap
    /\ save_data = EmptyMap
    /\ old_ver = <<>>
    /\ new_ver = <<>>
    /\ resolved_version = [s \in StoreType |-> Unset]
    /\ log = {}
    /\ sent = <<>>
    /\ exc = "none"
    /\ runs = 0
    /\ hist = NoHist

Notified == { sent[i].username : i \in 1..Len(sent) }

\* the history kept when a new run starts
NextHist ==
    IF pc = "start" THEN hist
    ELSE [ hist EXCEPT !.outcome = pc,
                       !.resolved = resolved_version,
                       !.sent = Notified ]

\* the process starts: the locals and the Store objects are fresh
Fresh ==
    /\ idx' = 1
    /\ save_data' = EmptyMap
    /\ old_ver' = <<>>
    /\ new_ver' = <<>>
    /\ resolved_version' = [s \in StoreType |-> Unset]
    /\ log' = {}
    /\ sent' = <<>>
    /\ runs' = runs + 1
    /\ hist' = NextHist

\* main, lines 138-144: the previous process has exited; the file is read
LoadState ==
    /\ UNCHANGED <<verVars, storeVars>>
    /\ pc \in {"start", "done", "aborted"}
    /\ runs < MaxRuns
    /\ file.state # "corrupt"
    /\ old_save_data' = IF file.state = "ok" THEN file.data ELSE EmptyMap
    /\ pc' = "resolve"
    /\ exc' = "none"
    /\ Fresh
    /\ UNCHANGED file

\* json.loads raises on a file that holds no JSON document
LoadStateFails ==
    /\ UNCHANGED <<verVars, storeVars>>
    /\ pc \in {"start", "done", "aborted"}
    /\ runs < MaxRuns
    /\ file.state = "corrupt"
    /\ old_save_data' = EmptyMap
    /\ pc' = "aborted"
    /\ exc' = "JSONDecodeError"
    /\ Fresh
    /\ UNCHANGED file

\* main, lines 148-149, the resolver returns
Resolve ==
    /\ UNCHANGED <<verVars, storeVars>>
    /\ pc = "resolve"
    /\ \E env \in RunEnvs(store) :
          LET r == parse_version(store, env)
          IN  /\ ~r.raised
              /\ new_ver' = r.value
              /\ resolved_version' = [resolved_version EXCEPT ![store] = Value(r.value)]
              /\ log' = IF r.diag \cap {"Empty response", "store version not found",
                                        "Mac App Store version not found"} # {}
                        THEN log \cup {store} ELSE log
    /\ old_ver' = OldVer(old_save_data, store)
    /\ pc' = "compare"
    /\ UNCHANGED <<file, idx, old_save_data, save_data, sent, exc, runs, hist>>

\* main, lines 148-149, the resolver raises: nothing in main catches it
ResolveRaises ==
    /\ UNCHANGED <<verVars, storeVars>>
    /\ pc = "resolve"
    /\ \E env \in RunEnvs(store) : parse_version(store, env).raised
    /\ old_ver' = OldVer(old_save_data, store)
    /\ pc' = "aborted"
    /\ exc' = "ResolverError"
    /\ UNCHANGED <<file, idx, old_save_data, save_data, new_ver, resolved_version,
                   log, sent, runs, hist>>

\* a plausible slip: any difference from the recorded version is an update
Compare_any_difference ==
    /\ UNCHANGED <<verVars, storeVars>>
    /\ pc = "compare"
    /\ pc' = IF new_ver # old_ver THEN "notify" ELSE "record"
    /\ UNCHANGED <<file, idx, old_save_data, save_data, old_ver, new_ver,
                   resolved_version, log, sent, exc, runs, hist>>

\* main, line 150
Compare ==
    /\ UNCHANGED <<verVars, storeVars>>
    /\ pc = "compare"
    /\ pc' = IF is_new_ver(new_ver, old_ver) THEN "notify" ELSE "record"
    /\ UNCHANGED <<file, idx, old_save_data, save_data, old_ver, new_ver,
                   resolved_version, log, sent, exc, runs, hist>>

Notification(st, ver) ==
    [ content |-> <<msg_prefix(st), " update: v", ver>>,
      username |-> st,
      avatar_url |-> avatar_url(st) ]

\* main, lines 151-158: the POST returns a response, whatever its status
Notify ==
    /\ UNCHANGED <<verVars, storeVars>>
    /\ pc = "notify"
    /\ sent' = Append(sent, Notification(store, new_ver))
    /\ pc' = "record"
    /\ UNCHANGED <<file, idx, old_save_data, save_data, old_ver, new_ver,
                   resolved_version, log, exc, runs, hist>>

\* main, line 158: httpx.post raises a transport error; nothing catches it
NotifyRaises ==
    /\ UNCHANGED <<verVars, storeVars>>
    /\ pc = "notify"
    /\ pc' = "aborted"
    /\ exc' = "PostError"
    /\ UNCHANGED <<file, idx, old_save_data, save_data, old_ver, new_ver,
                   resolved_version, log, sent, runs, hist>>

\* a plausible slip: the resolved version is recorded whatever the comparison said
Record_always_new ==
    /\ UNCHANGED <<verVars, storeVars>>
    /\ pc = "record"
    /\ save_data' = Put(save_data, store, new_ver)
    /\ IF idx < Len(ALL_STORES)
       THEN idx' = idx + 1 /\ pc' = "resolve"
       ELSE idx' = idx /\ pc' = "persist"
    /\ UNCHANGED <<file, old_save_data, old_ver, new_ver, resolved_version,
                   log, sent, exc, runs, hist>>

\* a plausible slip: the file is rewritten after every store
Record_persisting ==
    /\ UNCHANGED <<verVars, storeVars>>
    /\ pc = "record"
    /\ save_data' = Put(save_data, store,
                        IF is_new_ver(new_ver, old_ver) THEN new_ver ELSE old_ver)
    /\ file' = File("ok", save_data')
    /\ IF idx < Len(ALL_STORES)
       THEN idx' = idx + 1 /\ pc' = "resolve"
       ELSE idx' = idx /\ pc' = "persist"
    /\ UNCHANGED <<old_save_data, old_ver, new_ver, resolved_version,
                   log, sent, exc, runs, hist>>

\* main, lines 159 and 161, and the loop going on
Record ==
    /\ UNCHANGED <<verVars, storeVars>>
    /\ pc = "record"
    /\ save_data' = Put(save_data, store,
                        IF is_new_ver(new_ver, old_ver) THEN new_ver ELSE old_ver)
    /\ IF idx < Len(ALL_STORES)
       THEN idx' = idx + 1 /\ pc' = "resolve"
       ELSE idx' = idx /\ pc' = "persist"
    /\ UNCHANGED <<file, old_save_data, old_ver, new_ver, resolved_version,
                   log, sent, exc, runs, hist>>

\* the history kept when the file is written
WrittenHist ==
    [ hist EXCEPT
        !.completed = TRUE,
        !.held = [s \in StoreType |->
                    IF hist.completed THEN hist.held[s] \cup {file.data[s]}
                    ELSE hist.held[s]] ]

\* a plausible slip: the new entries are merged into the loaded map
PersistState_merged ==
    /\ UNCHANGED <<verVars, storeVars>>
    /\ pc = "persist"
    /\ file' = File("ok", [k \in DOMAIN old_save_data \cup DOMAIN save_data |->
                             IF k \in DOMAIN save_data THEN save_data[k]
                             ELSE old_save_data[k]])
    /\ hist' = WrittenHist
    /\ pc' = "done"
    /\ UNCHANGED <<idx, old_save_data, save_data, old_ver, new_ver,
                   resolved_version, log, sent, exc, runs>>

\* main, lines 163-164
PersistState ==
    /\ UNCHANGED <<verVars, storeVars>>
    /\ pc = "persist"
    /\ file' = File("ok", save_data)
    /\ hist' = WrittenHist
    /\ pc' = "done"
    /\ UNCHANGED <<idx, old_save_data, save_data, old_ver, new_ver,
                   resolved_version, log, sent, exc, runs>>

\* main, line 163: open raises, the file is as it was
PersistOpenFails ==
    /\ UNCHANGED <<verVars, storeVars>>
    /\ pc = "persist"
    /\ pc' = "aborted"
    /\ exc' = "WriteError"
    /\ UNCHANGED <<file, idx, old_save_data, save_data, old_ver, new_ver,
                   resolved_version, log, sent, runs, hist>>

\* main, line 164: open has truncated the file and the write fails
PersistWriteFails ==
    /\ UNCHANGED <<verVars, storeVars>>
    /\ pc = "persist"
    /\ file' = File("corrupt", EmptyMap)
    /\ pc' = "aborted"
    /\ exc' = "WriteError"
    /\ UNCHANGED <<idx, old_save_data, save_data, old_ver, new_ver,
                   resolved_version, log, sent, runs, hist>>

-----------------------------------------------------------------------------
(* Specifications *)

Init == RunInit /\ VerParked /\ StoreParked

Next ==
    \/ LoadState
    \/ LoadStateFails
    \/ Resolve
    \/ ResolveRaises
    \/ Compare
    \/ Notify
    \/ NotifyRaises
    \/ Record
    \/ PersistState
    \/ PersistOpenFails
    \/ PersistWriteFails

Spec == Init /\ [][Next]_vars

InitVer == VerInit /\ StoreParked /\ RunParked

NextVer == VerCall

SpecVer == InitVer /\ [][NextVer]_vars

InitStore == StoreInit /\ VerParked /\ RunParked

NextStore == StoreCall

SpecStore == InitStore /\ [][NextStore]_vars

-----------------------------------------------------------------------------
(* Properties *)

\* the comparison the specification describes: both texts are lists of
\* integers and, at the first position where they differ within the
\* shorter one, the candidate's component is the larger
RefNewer(candidate, baseline) ==
    /\ ~IntListRaises(candidate)
    /\ ~IntListRaises(baseline)
    /\ LET c == IntList(candidate)
           b == IntList(baseline)
       IN  \E i \in 1..Min(Len(c), Len(b)) :
              /\ \A j \in 1..(i - 1) : c[j] = b[j]
              /\ c[i] > b[i]

\* C1: is_new_ver(candidate, baseline) is true exactly when both inputs are
\* lists of integers and the candidate's component is the larger one at the
\* first differing position within the shorter list; it is false when the
\* overlap is equal and when either input has a non-integer component.
C1_IsNewVerIsReference == vpc = "return" => vret = RefNewer(vnew, vcur)

\* C1, witnesses: "1.10" against "1.9" is newer (numbers, not text), and the
\* cases the claim names are among the inputs
C1_Witness ==
    /\ vpc = "return"
    /\ vnew = <<"1", ".", "1", "0">>
    /\ vcur = <<"1", ".", "9">>
    /\ vret = TRUE

\* C2: Store.parse_version never raises, whatever its fetches and
\* extractions meet.
C2_ParseVersionNeverRaises == spc = "return" => ~sout.raised

\* the product-page extraction fails
ExtractionFails(page) ==
    \/ page.kind # "doc"
    \/ page.nodes = <<>>
    \/ page.nodes[1].none

\* the website version of the App Store reconciliation
WebsiteVersion(page) ==
    IF ExtractionFails(page) THEN DEFAULT_VERSION
    ELSE Strip(RemoveLabels(page.nodes[1].text))

\* C6: get_ios_version returns the API version when is_new_ver(API, website)
\* is true and the website version in every other case; the website version
\* is the default "1.0.0" when the product-page extraction fails.
C6_IosReconciliation ==
    (spc = "return" /\ sstore = APP_STORE /\ ~sout.raised) =>
        LET api == senv.api.results[1].version
            web == WebsiteVersion(senv.page)
        IN  sout.value = IF is_new_ver(api, web) THEN api ELSE web

\* C6, witness: the API is ahead of a failed extraction and wins
C6_Witness ==
    /\ spc = "return"
    /\ sstore = APP_STORE
    /\ ~sout.raised
    /\ ExtractionFails(senv.page)
    /\ senv.api.results[1].version = V1_1
    /\ sout.value = V1_1

\* the stores the loop of this run has finished with
Recorded == DOMAIN save_data

\* a store's prior version as the claims define it: its value in the loaded
\* file, "1.0.0" when the file or the entry is absent
ClaimedPrior(s) ==
    IF s \in DOMAIN old_save_data THEN old_save_data[s] ELSE DEFAULT_VERSION

\* the same, an empty value counting as absent
PriorOrDefault(s) ==
    IF s \in DOMAIN old_save_data /\ old_save_data[s] # <<>>
    THEN old_save_data[s]
    ELSE DEFAULT_VERSION

\* C3 as stated: after a completed run the file has exactly the three
\* stores' entries, each the resolved version if newer than the prior value
\* and the prior value otherwise, the prior value being the loaded one or
\* "1.0.0" when absent.
C3_WrittenMapAsStated ==
    pc = "done" =>
        /\ file.state = "ok"
        /\ DOMAIN file.data = StoreType
        /\ \A s \in StoreType :
              file.data[s] =
                  IF is_new_ver(resolved_version[s].v, ClaimedPrior(s))
                  THEN resolved_version[s].v
                  ELSE ClaimedPrior(s)

\* C3 amended: the same, the prior value being "1.0.0" also when the loaded
\* entry is empty.
C3_WrittenMap ==
    pc = "done" =>
        /\ file.state = "ok"
        /\ DOMAIN file.data = StoreType
        /\ \A s \in StoreType :
              /\ resolved_version[s].set
              /\ file.data[s] =
                  IF is_new_ver(resolved_version[s].v, PriorOrDefault(s))
                  THEN resolved_version[s].v
                  ELSE PriorOrDefault(s)

\* C3, witness: the loaded file had a key of no configured store, one store
\* was updated and one kept its prior value against a different resolved one
C3_Witness ==
    /\ pc = "done"
    /\ LEGACY \in DOMAIN old_save_data
    /\ LEGACY \notin DOMAIN file.data
    /\ file.data[APP_STORE] = V1_2
    /\ resolved_version[PLAY_STORE].v = VText
    /\ file.data[PLAY_STORE] = V1_1

\* C4: a notification is dispatched for a store exactly when its resolved
\* version is newer than its prior one, at most once per run, under the
\* store's label.
C4_NotifyIffNewer ==
    /\ \A i \in 1..Len(sent) :
          LET u == sent[i].username
          IN  /\ u \in StoreType
              /\ resolved_version[u].set
              /\ is_new_ver(resolved_version[u].v, PriorOrDefault(u))
              /\ sent[i].content =
                    <<msg_prefix(u), " update: v", resolved_version[u].v>>
              /\ sent[i].avatar_url = avatar_url(u)
    /\ \A i, j \in 1..Len(sent) : sent[i].username = sent[j].username => i = j
    /\ \A s \in Recorded :
          s \in Notified <=> is_new_ver(resolved_version[s].v, PriorOrDefault(s))

\* C4, witness: a completed run that notified the App Store alone, the Play
\* Store having resolved to something else than its prior version
C4_Witness ==
    /\ pc = "done"
    /\ Notified = {APP_STORE}
    /\ resolved_version[PLAY_STORE].v # PriorOrDefault(PLAY_STORE)
    /\ resolved_version[MAC_STORE].v = PriorOrDefault(MAC_STORE)

\* this run resolved every store to what the previous run resolved it to
SameAsPreviousRun ==
    \A s \in StoreType : resolved_version[s].set /\ resolved_version[s] = hist.resolved[s]

\* C5: a completed run that follows a completed run, every resolver
\* returning what it returned then, dispatches nothing and writes the map
\* the first run wrote (the map this run loaded).
C5_Idempotent ==
    (pc = "done" /\ hist.outcome = "done" /\ SameAsPreviousRun) =>
        /\ sent = <<>>
        /\ file.data = old_save_data

\* C5, witness: the first of the two runs did notify
C5_Witness ==
    /\ pc = "done"
    /\ hist.outcome = "done"
    /\ SameAsPreviousRun
    /\ hist.sent = StoreType
    /\ sent = <<>>

\* C7: a store whose fetch or extraction faulted and resolved to the default
\* is not notified and keeps its prior persisted value.
C7_FaultMeansNoChange ==
    \A s \in log :
        resolved_version[s] = Value(DEFAULT_VERSION) =>
            /\ s \notin Notified
            /\ (pc = "done" => file.data[s] = PriorOrDefault(s))

\* C8: a failing webhook POST does not end the run.
C8_PostFaultIsNotFatal == pc = "aborted" => exc # "PostError"

\* the steps of a run, in order
C9_Order ==
    \/ /\ pc \in {"start", "done", "aborted"}
       /\ pc' \in {"resolve", "aborted"}
       /\ idx' = 1 /\ save_data' = EmptyMap /\ sent' = <<>>
    \/ /\ pc = "resolve"
       /\ pc' \in {"compare", "aborted"}
       /\ idx' = idx /\ save_data' = save_data /\ sent' = sent
       /\ pc' = "compare" => resolved_version'[ALL_STORES[idx]].set
    \/ /\ pc = "compare"
       /\ pc' \in {"notify", "record"}
       /\ idx' = idx /\ save_data' = save_data /\ sent' = sent
    \/ /\ pc = "notify"
       /\ pc' \in {"record", "aborted"}
       /\ idx' = idx /\ save_data' = save_data
       /\ pc' = "record" => /\ Len(sent') = Len(sent) + 1
                            /\ sent'[Len(sent')].username = ALL_STORES[idx]
       /\ pc' = "aborted" => sent' = sent
    \/ /\ pc = "record"
       /\ DOMAIN save_data' = DOMAIN save_data \cup {ALL_STORES[idx]}
       /\ sent' = sent
       /\ IF idx < Len(ALL_STORES)
          THEN pc' = "resolve" /\ idx' = idx + 1
          ELSE pc' = "persist"
    \/ /\ pc = "persist"
       /\ pc' \in {"done", "aborted"}
       /\ save_data' = save_data /\ sent' = sent

\* C9: the steps of a run follow LoadState, then Resolve, Compare, optional
\* Notify and Record for the Play Store, the App Store and the Mac Store in
\* this order, then PersistState; only PersistState changes the file, so a
\* run that aborts before it leaves the file as it was, its notifications
\* stay sent, and the next run sends them again when it resolves the same
\* version.
C9_StepsInOrder ==
    [][ /\ C9_Order
        /\ file' # file => pc = "persist"
        /\ (pc' = "aborted" /\ exc' # "WriteError") => file' = file
        /\ \A s \in StoreType :
              ( /\ hist'.outcome = "aborted"
                /\ s \in hist'.sent
                /\ s \in DOMAIN save_data'
                /\ resolved_version'[s] = hist'.resolved[s] )
              => s \in { sent'[i].username : i \in 1..Len(sent') }
      ]_vars

\* C9, witness: a run aborted after notifying the Play Store, and the next
\* run, resolving the same version, has notified it again
C9_Witness ==
    /\ hist.outcome = "aborted"
    /\ PLAY_STORE \in hist.sent
    /\ PLAY_STORE \in Recorded
    /\ resolved_version[PLAY_STORE] = hist.resolved[PLAY_STORE]
    /\ PLAY_STORE \in Notified
    /\ file.state = "absent"

\* C10: from one completed run to the next a store's persisted version
\* stays the same or changes to a version that is_new_ver judges newer,
\* which is a list of integers and none of the values persisted before.
C10_PersistedMonotone ==
    pc = "done" =>
        \A s \in StoreType :
            hist.held[s] # {} =>
                \/ file.data[s] = old_save_data[s]
                \/ /\ is_new_ver(file.data[s], old_save_data[s])
                   /\ ~IntListRaises(file.data[s])
                   /\ file.data[s] \notin hist.held[s]

\* C10, witness: the App Store went from 1.1 to 1.2, then resolved to 1.1
\* again and stayed at 1.2
C10_Witness ==
    /\ pc = "done"
    /\ hist.held[APP_STORE] = {V1_1, V1_2}
    /\ resolved_version[APP_STORE].v = V1_1
    /\ file.data[APP_STORE] = V1_2

====
